---- MODULE Spec2Model ----
(***************************************************************************)
(* Resilient data layer of the voice dispatch assistant (slow variant):    *)
(*   - DatabaseCircuitBreaker      (call_transcription_storage.py)         *)
(*   - OptimizedTranscriptionHandler write queue and batch flush loop      *)
(*                                  (transcription/handler.py)             *)
(*   - UltraFastRAGSystem two-tier result cache and cache-key derivation   *)
(*                                  (simple_rag_v2.py)                     *)
(* Each component has its own specification over the shared variables.     *)
(***************************************************************************)
EXTENDS Integers, Sequences, FiniteSets, TLC

VARIABLES
    now,                 \* wall clock read by time.time(), in ticks
    \* ---- DatabaseCircuitBreaker ----
    state,               \* self.state
    failure_count,       \* self.failure_count
    last_failure_time,   \* self.last_failure_time (NoTime = None)
    xpc,                 \* per caller of execute: "idle" or "running" (awaiting operation())
    xresult,             \* per caller: outcome of its last execute call
    xtrial,              \* per caller: its running operation was started in HALF_OPEN
    xturn,               \* per caller: flips at every execute call it makes
    consecutive_failures, \* history: operations failed since the last success
    failed_trial_time,   \* history: when the last completed operation was a failed
                         \* HALF_OPEN trial, the time it failed; else NoTime
    \* ---- OptimizedTranscriptionHandler ----
    write_queue,         \* self.write_queue: the items it holds, oldest first
    storage,             \* self.storage: "None" until initialize
    is_processing,       \* self.is_processing
    lpc,                 \* self.batch_processor: "none" (no task), "start" (created),
                         \* "get" (in wait_for(write_queue.get())), "sleep", "done"
    batch,               \* _process_write_batches: batch
    remaining_time,      \* _process_write_batches: batch_deadline - time.time()
    since_write,         \* _process_write_batches: time.time() - last_write_time
    sleep_left,          \* time left of the asyncio.sleep(0.1) the loop is in
    ppc,                 \* per producer task: "idle" or "putting" (suspended in put)
    ptype,               \* per producer task suspended in put: the type of its item
    next_id,             \* history: number of the next item accepted into the queue
    cpc,                 \* cleanup task: "idle", "waiting" (for the batch processor), "done"
    persisted,           \* history: ids passed to storage.save_transcription_segment, in order
    flushed,             \* history: ids passed to _execute_batch_write, in order
    mongo_pending,       \* _save_transcription_segment_mongo tasks created and not ended
    mongo_failures,      \* history: _save_transcription_segment_mongo tasks that raised
    last_flush,          \* history: the call of _execute_batch_write made at the
                         \* current instant, if any
    \* ---- UltraFastRAGSystem ----
    ready,               \* self.ready (index and retriever are built with it)
    l1_cache,            \* self.l1_cache: entries [k, v] in insertion order
    l2_cache,            \* self.l2_cache: entries [k, v] in insertion order
    query_frequency,     \* self.query_frequency: key -> count, 0 when absent
    cache_hits,          \* self.cache_hits
    cache_misses,        \* self.cache_misses
    total_queries,       \* self.total_queries
    rpc,                 \* per lookup task: "idle", "retrieving" (retrieve_context in
                         \* retriever.aretrieve) or "searching" (search in it)
    rkey,                \* per lookup task: cache_key of the call in flight
    rquery,              \* per lookup task: query of the call in flight
    rstale,              \* history, per lookup task: add_documents completed while
                         \* the call was in aretrieve
    last_lookup          \* history: the retrieve_context call that started, or timed
                         \* out, in the last step

breakerVars == <<state, failure_count, last_failure_time, xpc, xresult, xtrial, xturn,
                 consecutive_failures, failed_trial_time>>

batcherVars == <<write_queue, storage, is_processing, lpc, batch, remaining_time,
                 since_write, sleep_left, ppc, ptype, next_id, cpc,
                 persisted, flushed, mongo_pending, mongo_failures, last_flush>>

cacheVars == <<ready, l1_cache, l2_cache, query_frequency, cache_hits, cache_misses,
               total_queries, rpc, rkey, rquery, rstale, last_lookup>>

vars == <<now, breakerVars, batcherVars, cacheVars>>

(***************************************************************************)
(* Bounds                                                                  *)
(***************************************************************************)
MaxTime == 10         \* the clock stops here
MaxFailures == 5      \* cap on failure_count
NumCallers == 2       \* concurrent callers of execute
timeout == 2          \* open timeout of the breaker, in ticks

MaxItems == 3         \* write items accepted into the queue in one run
MaxBurst == 6         \* write items accepted into the queue in a burst
NumProducers == 2     \* speech-event tasks that put concurrently
maxsize == 2          \* capacity of write_queue (asyncio.Queue(maxsize=100), scaled)

NumLookups == 2       \* concurrent retrieve_context / search tasks
MaxOps == 3           \* cap on total_queries and on cache_hits + cache_misses
MaxSeqOps == 5        \* cap on total_queries for the sequential caller
max_l1_cache == 1     \* self.max_l1_cache (50, scaled)
max_l2_cache == 2     \* self.max_l2_cache (200, scaled)

threshold == 3        \* config.circuit_breaker_threshold

\* transcription/handler.py, in ticks of 100 ms
BatchWindow == 2      \* batch_deadline = time.time() + 0.2
MaxBatch == 5         \* len(batch) < 5
IdleLimit == 10       \* time.time() - last_write_time > 1.0
IdleSleep == 1        \* asyncio.sleep(0.1)

NoTime == -1
Callers == 1..NumCallers

(***************************************************************************)
(* DatabaseCircuitBreaker                                                  *)
(***************************************************************************)
BreakerInit ==
    /\ state = "CLOSED"
    /\ failure_count = 0
    /\ last_failure_time = NoTime
    /\ xpc = [c \in Callers |-> "idle"]
    /\ xresult = [c \in Callers |-> "none"]
    /\ xtrial = [c \in Callers |-> FALSE]
    /\ xturn = [c \in Callers |-> FALSE]
    /\ consecutive_failures = 0
    /\ failed_trial_time = NoTime

\* record_failure: the state after failure number fc recorded at the current state st
RecordFailureStateMut(fc, st) == IF fc > threshold THEN "OPEN" ELSE st

RecordFailureState(fc, st) == IF fc >= threshold THEN "OPEN" ELSE st

\* record_failure: the new last_failure_time
RecordFailureTimeMut(t, old) == old

RecordFailureTime(t, old) == t

\* reset: the new failure_count
ResetCountMut(fc) == fc

ResetCount(fc) == 0

\* execute, the test made while OPEN: has the open timeout elapsed
TimeoutElapsed(t, last) == t - last > timeout

Running == {c \in Callers : xpc[c] = "running"}

\* execute up to `await operation()`: rejected while OPEN within the timeout,
\* otherwise (after OPEN -> HALF_OPEN when the timeout has elapsed) the
\* operation is invoked.
ExecuteBegin(c) ==
    /\ xpc[c] = "idle"
    /\ failure_count + Cardinality(Running) < MaxFailures
    /\ xturn' = [xturn EXCEPT ![c] = ~xturn[c]]
    /\ IF state = "OPEN" /\ ~TimeoutElapsed(now, last_failure_time)
       THEN /\ xresult' = [xresult EXCEPT ![c] = "circuit_open"]
            /\ UNCHANGED <<state, xpc, xtrial>>
       ELSE /\ state' = IF state = "OPEN" THEN "HALF_OPEN" ELSE state
            /\ xpc' = [xpc EXCEPT ![c] = "running"]
            /\ xtrial' = [xtrial EXCEPT ![c] = (state' = "HALF_OPEN")]
            /\ xresult' = [xresult EXCEPT ![c] = "none"]
    /\ UNCHANGED <<now, batcherVars, cacheVars, failure_count, last_failure_time, consecutive_failures,
                   failed_trial_time>>

\* execute after the operation returned: reset()
ExecuteSucceed(c) ==
    /\ xpc[c] = "running"
    /\ failure_count' = ResetCount(failure_count)
    /\ state' = "CLOSED"
    /\ xpc' = [xpc EXCEPT ![c] = "idle"]
    /\ xresult' = [xresult EXCEPT ![c] = "ok"]
    /\ consecutive_failures' = 0
    /\ failed_trial_time' = NoTime
    /\ UNCHANGED <<now, batcherVars, cacheVars, last_failure_time, xtrial, xturn>>

\* execute after the operation raised: record_failure(), re-raise
ExecuteFail(c) ==
    /\ xpc[c] = "running"
    /\ failure_count' = failure_count + 1
    /\ last_failure_time' = RecordFailureTime(now, last_failure_time)
    /\ state' = RecordFailureState(failure_count', state)
    /\ xpc' = [xpc EXCEPT ![c] = "idle"]
    /\ xresult' = [xresult EXCEPT ![c] = "error"]
    /\ consecutive_failures' = consecutive_failures + 1
    /\ failed_trial_time' = IF xtrial[c] THEN now ELSE NoTime
    /\ UNCHANGED <<now, batcherVars, cacheVars, xtrial, xturn>>

BreakerTick ==
    /\ now < MaxTime
    /\ now' = now + 1
    /\ UNCHANGED <<breakerVars, batcherVars, cacheVars>>

\* execute called by several tasks: calls overlap at `await operation()`
BreakerNext ==
    \/ BreakerTick
    \/ \E c \in Callers : ExecuteBegin(c)
    \/ \E c \in Callers : ExecuteSucceed(c)
    \/ \E c \in Callers : ExecuteFail(c)

\* execute called from one sequential caller at a time: a call begins only
\* when no other call is in flight
ExecuteBeginSeq(c) == Running = {} /\ ExecuteBegin(c)

BreakerSeqNext ==
    \/ BreakerTick
    \/ \E c \in Callers : ExecuteBeginSeq(c)
    \/ \E c \in Callers : ExecuteSucceed(c)
    \/ \E c \in Callers : ExecuteFail(c)

(***************************************************************************)
(* OptimizedTranscriptionHandler: write queue and batch flush loop         *)
(* The loop's times are kept as the differences the code computes from     *)
(* time.time(): the time left to batch_deadline, the time since            *)
(* last_write_time.                                                        *)
(***************************************************************************)
Producers == 1..NumProducers

ItemTypes == {"transcription_segment", "conversation_item"}

\* ages are counted up to here
AgeCap == BatchWindow + IdleSleep + 1

NoFlush == [by |-> "none", remaining |-> 0, items |-> <<>>, attempted |-> <<>>,
            processing |-> FALSE]

BatcherInit ==
    /\ write_queue = <<>>
    /\ storage = "None"
    /\ is_processing = FALSE
    /\ lpc = "none"
    /\ batch = <<>>
    /\ remaining_time = 0
    /\ since_write = 0
    /\ sleep_left = 0
    /\ ppc = [p \in Producers |-> "idle"]
    /\ ptype = [p \in Producers |-> "transcription_segment"]
    /\ next_id = 1
    /\ cpc = "idle"
    /\ persisted = <<>>
    /\ flushed = <<>>
    /\ mongo_pending = 0
    /\ mongo_failures = 0
    /\ last_flush = NoFlush

\* asyncio.Queue.full()
Full(q) == Len(q) >= maxsize

\* the flush loop exists and has not been told to stop
LoopRunning == is_processing /\ lpc \in {"start", "get", "sleep"}

\* the item as it sits in the queue; history fields: age is the time since it
\* was accepted, live whether the flush loop was running then, held the
\* time since the flush loop got it
NewItem(t) == [id |-> next_id, type |-> t, age |-> 0, live |-> LoopRunning, held |-> 0]

\* `await self.write_queue.put(item)`: appends when there is room, and
\* otherwise suspends the producer until a slot is free (put never raises
\* QueueFull, so the except branch of the handlers is not reachable).
PutItem(p, t) ==
    /\ ppc[p] = "idle"
    /\ IF Full(write_queue)
       THEN /\ ppc' = [ppc EXCEPT ![p] = "putting"]
            /\ ptype' = [ptype EXCEPT ![p] = t]
            /\ UNCHANGED <<write_queue, next_id>>
       ELSE /\ write_queue' = Append(write_queue, NewItem(t))
            /\ next_id' = next_id + 1
            /\ UNCHANGED <<ppc, ptype>>

\* a put, while the number of items of the run is below its cap
Put(p, t) ==
    /\ next_id <= MaxItems
    /\ PutItem(p, t)

\* _handle_user_speech_fast / _handle_agent_speech_fast: the write of a
\* transcription segment
HandleSpeechFast(p) ==
    /\ Put(p, "transcription_segment")
    /\ UNCHANGED <<now, breakerVars, cacheVars, mongo_failures, storage, is_processing, lpc, batch,
                   remaining_time, since_write, sleep_left, cpc, persisted, flushed, mongo_pending, last_flush>>

\* save_final_transcript: the write of the final conversation item
SaveFinalTranscript(p) ==
    /\ Put(p, "conversation_item")
    /\ UNCHANGED <<now, breakerVars, cacheVars, mongo_failures, storage, is_processing, lpc, batch,
                   remaining_time, since_write, sleep_left, cpc, persisted, flushed, mongo_pending, last_flush>>

\* the same write, in a run of up to MaxBurst items
HandleSpeechBurst(p) ==
    /\ next_id <= MaxBurst
    /\ PutItem(p, "transcription_segment")
    /\ UNCHANGED <<now, breakerVars, cacheVars, mongo_failures, storage, is_processing, lpc, batch,
                   remaining_time, since_write, sleep_left, cpc, persisted, flushed, mongo_pending, last_flush>>

\* a producer suspended in put is resumed once the queue has room
PutResume(p) ==
    /\ ppc[p] = "putting"
    /\ ~Full(write_queue)
    /\ write_queue' = Append(write_queue, NewItem(ptype[p]))
    /\ next_id' = next_id + 1
    /\ ppc' = [ppc EXCEPT ![p] = "idle"]
    /\ ptype' = [ptype EXCEPT ![p] = "transcription_segment"]
    /\ UNCHANGED <<now, breakerVars, cacheVars, mongo_failures, storage, is_processing, lpc, batch,
                   remaining_time, since_write, sleep_left, cpc, persisted, flushed, mongo_pending, last_flush>>

\* initialize: storage obtained, batch processor task created, is_processing set
Initialize ==
    /\ lpc = "none"
    /\ cpc = "idle"
    /\ storage' = "ready"
    /\ lpc' = "start"
    /\ is_processing' = TRUE
    /\ UNCHANGED <<now, breakerVars, cacheVars, mongo_failures, write_queue, batch, remaining_time,
                   since_write, sleep_left, ppc, ptype, next_id, cpc, persisted, flushed, mongo_pending,
                   last_flush>>

\* batch.append(item)
BatchAppendMut(b, item) == <<item>> \o b

BatchAppend(b, item) == Append(b, item)

Ids(b) == [i \in 1..Len(b) |-> b[i].id]

IsSegment(item) == item.type = "transcription_segment"

\* _execute_batch_write: the ids handed to storage.save_transcription_segment,
\* in order.  Only transcription segments are written; with storage None the
\* first segment raises and the except ends the write.
ExecuteBatchWrite(b) ==
    IF storage = "None" THEN <<>> ELSE Ids(SelectSeq(b, IsSegment))

\* _execute_batch_write: the ids of the items for which the for loop reached
\* the call of save_transcription_segment, whether or not the call was made.
\* With storage None that is the first segment only: the AttributeError
\* leaves the for loop, which is inside the try.
Attempted(b) ==
    LET segs == Ids(SelectSeq(b, IsSegment))
    IN IF storage = "None" /\ segs # <<>> THEN <<segs[1]>> ELSE segs

FlushRecord(who, b) ==
    [by |-> who, remaining |-> remaining_time, items |-> b, attempted |-> Attempted(b),
     processing |-> is_processing]

\* batch.clear()
BatchClearMut(b) == b

BatchClear(b) == <<>>

\* save_transcription_segment: asyncio.create_task(_save_transcription_segment_mongo)
\* for every segment the store is called for
TasksCreated(b) == Len(ExecuteBatchWrite(b))

\* batch_deadline = time.time() + 0.2
NewDeadlineMut(t) == t + BatchWindow + 1

NewDeadline(t) == t + BatchWindow

\* condition of the inner while: keep collecting into batch b
CollectMoreMut(b) == 0 < remaining_time /\ Len(b) < 2 /\ is_processing

\* len(batch) < 5
BatchHasRoomMut(b) == Len(b) <= MaxBatch

BatchHasRoom(b) == Len(b) < MaxBatch

CollectMore(b) == 0 < remaining_time /\ BatchHasRoom(b) /\ is_processing

\* the head of `while self.is_processing` with an empty batch: a new window
\* is opened and the loop waits for an item, or the loop ends
LoopTop ==
    IF is_processing
    THEN lpc' = "get" /\ remaining_time' = NewDeadline(now) - now /\ UNCHANGED since_write
    ELSE lpc' = "done" /\ remaining_time' = 0 /\ since_write' = 0

\* `if batch:` branch: write the batch, clear it, last_write_time =
\* time.time(), next pass of the loop
FlushBatch(b) ==
    /\ persisted' = persisted \o ExecuteBatchWrite(b)
    /\ flushed' = flushed \o Ids(b)
    /\ mongo_pending' = mongo_pending + TasksCreated(b)
    /\ last_flush' = FlushRecord("loop", b)
    /\ batch' = BatchClear(b)
    /\ IF is_processing
       THEN lpc' = "get" /\ remaining_time' = NewDeadline(now) - now
       ELSE lpc' = "done" /\ remaining_time' = 0
    /\ since_write' = 0

\* first run of the task: batch = [], last_write_time = time.time()
LoopStart ==
    /\ lpc = "start"
    /\ batch' = <<>>
    /\ IF is_processing
       THEN lpc' = "get" /\ remaining_time' = NewDeadline(now) - now
       ELSE lpc' = "done" /\ remaining_time' = 0
    /\ since_write' = 0
    /\ UNCHANGED <<now, breakerVars, cacheVars, mongo_failures, write_queue, storage, is_processing,
                   sleep_left, ppc, ptype, next_id, cpc, persisted, flushed, mongo_pending, last_flush>>

\* wait_for(write_queue.get()) returns an item
LoopGetItem ==
    /\ lpc = "get"
    /\ write_queue # <<>>
    /\ write_queue' = Tail(write_queue)
    /\ LET b == BatchAppend(batch, Head(write_queue))
       IN IF CollectMore(b)
          THEN /\ batch' = b
               /\ UNCHANGED <<lpc, remaining_time, since_write, persisted, flushed, mongo_pending, last_flush>>
          ELSE FlushBatch(b)
    /\ UNCHANGED <<now, breakerVars, cacheVars, mongo_failures, storage, is_processing, sleep_left, ppc,
                   ptype, next_id, cpc>>

\* wait_for raises TimeoutError at the deadline: break
LoopTimeout ==
    /\ lpc = "get"
    /\ remaining_time <= 0
    /\ IF batch # <<>>
       THEN FlushBatch(batch) /\ UNCHANGED sleep_left
       ELSE IF since_write > IdleLimit
            THEN /\ lpc' = "sleep"
                 /\ sleep_left' = IdleSleep
                 /\ remaining_time' = 0
                 /\ UNCHANGED <<batch, since_write, persisted, flushed, mongo_pending, last_flush>>
            ELSE /\ LoopTop
                 /\ UNCHANGED <<batch, sleep_left, persisted, flushed, mongo_pending, last_flush>>
    /\ UNCHANGED <<now, breakerVars, cacheVars, mongo_failures, write_queue, storage, is_processing, ppc,
                   ptype, next_id, cpc>>

\* asyncio.sleep(0.1) returns
LoopWake ==
    /\ lpc = "sleep"
    /\ sleep_left <= 0
    /\ LoopTop
    /\ UNCHANGED <<now, breakerVars, cacheVars, mongo_failures, write_queue, storage, is_processing,
                   batch, sleep_left, ppc, ptype, next_id, cpc, persisted, flushed, mongo_pending, last_flush>>

\* cleanup, the get_nowait loop: remaining_items
DrainQueueMut(q) == IF q = <<>> THEN q ELSE <<Head(q)>>

DrainQueue(q) == q

\* cleanup from `remaining_items = []` on
CleanupDrain ==
    /\ write_queue' = <<>>
    /\ IF write_queue # <<>>
       THEN /\ persisted' = persisted \o ExecuteBatchWrite(DrainQueue(write_queue))
            /\ flushed' = flushed \o Ids(DrainQueue(write_queue))
            /\ mongo_pending' = mongo_pending + TasksCreated(DrainQueue(write_queue))
            /\ last_flush' = FlushRecord("cleanup", DrainQueue(write_queue))
       ELSE UNCHANGED <<persisted, flushed, mongo_pending, last_flush>>
    /\ cpc' = "done"

\* cleanup up to its first suspension: is_processing = False, then either
\* wait for the batch processor or, if there is none running, drain at once
Cleanup ==
    /\ cpc = "idle"
    /\ is_processing' = FALSE
    /\ IF lpc \in {"none", "done"}
       THEN CleanupDrain
       ELSE cpc' = "waiting" /\ UNCHANGED <<write_queue, persisted, flushed, mongo_pending, last_flush>>
    /\ UNCHANGED <<now, breakerVars, cacheVars, mongo_failures, storage, lpc, batch, remaining_time,
                   since_write, sleep_left, ppc, ptype, next_id>>

\* cleanup resumed when the batch processor has ended (it ends within a
\* batch window or an idle sleep, well inside the 2.0 s of wait_for)
CleanupResume ==
    /\ cpc = "waiting"
    /\ lpc = "done"
    /\ CleanupDrain
    /\ UNCHANGED <<now, breakerVars, cacheVars, mongo_failures, storage, is_processing, lpc, batch,
                   remaining_time, since_write, sleep_left, ppc, ptype, next_id>>

\* a task is ready to run: the event loop runs it before time passes
Runnable ==
    \/ lpc = "start"
    \/ lpc = "get" /\ (write_queue # <<>> \/ remaining_time <= 0)
    \/ lpc = "sleep" /\ sleep_left <= 0
    \/ \E p \in Producers : ppc[p] = "putting" /\ ~Full(write_queue)
    \/ cpc = "waiting" /\ lpc = "done"

Capped(n, cap) == IF n < cap THEN n + 1 ELSE cap

Older(b, inBatch) ==
    [i \in DOMAIN b |-> [b[i] EXCEPT !.age = Capped(@, AgeCap),
                                     !.held = IF inBatch THEN Capped(@, AgeCap) ELSE @]]

\* one tick of time passes while every task waits
BatcherTick ==
    /\ ~Runnable
    /\ remaining_time' = IF lpc = "get" THEN remaining_time - 1 ELSE remaining_time
    /\ sleep_left' = IF lpc = "sleep" THEN sleep_left - 1 ELSE sleep_left
    /\ since_write' = IF lpc \in {"get", "sleep"}
                      THEN Capped(since_write, IdleLimit + 1) ELSE since_write
    /\ write_queue' = Older(write_queue, FALSE)
    /\ batch' = Older(batch, TRUE)
    /\ last_flush' = NoFlush
    /\ UNCHANGED <<now, breakerVars, cacheVars, mongo_failures, storage, is_processing, lpc, ppc, ptype,
                   next_id, cpc, persisted, flushed, mongo_pending>>

\* insert_one of a _save_transcription_segment_mongo task returns
MongoWriteDone ==
    /\ mongo_pending > 0
    /\ mongo_pending' = mongo_pending - 1
    /\ UNCHANGED <<now, breakerVars, cacheVars, mongo_failures, write_queue, storage,
                   is_processing, lpc, batch, remaining_time, since_write, sleep_left,
                   ppc, ptype, next_id, cpc, persisted, flushed, last_flush>>

\* what an exception of a _save_transcription_segment_mongo task does to
\* the flush loop: the exception stays in the task, which nobody awaits
LoopAfterTaskErrorMut(l) == "done"

LoopAfterTaskError(l) == l

\* insert_one raises: the task logs and re-raises (lines 564-566)
MongoWriteFail ==
    /\ mongo_pending > 0
    /\ mongo_pending' = mongo_pending - 1
    /\ mongo_failures' = mongo_failures + 1
    /\ lpc' = LoopAfterTaskError(lpc)
    /\ UNCHANGED <<now, breakerVars, cacheVars, write_queue, storage,
                   is_processing, batch, remaining_time, since_write, sleep_left,
                   ppc, ptype, next_id, cpc, persisted, flushed, last_flush>>

BatcherNext ==
    \/ BatcherTick
    \/ \E p \in Producers : HandleSpeechFast(p)
    \/ \E p \in Producers : SaveFinalTranscript(p)
    \/ \E p \in Producers : PutResume(p)
    \/ Initialize
    \/ LoopStart
    \/ LoopGetItem
    \/ LoopTimeout
    \/ LoopWake
    \/ Cleanup
    \/ CleanupResume
    \/ MongoWriteDone
    \/ MongoWriteFail

\* producers that write transcription segments in a burst while the flush
\* loop runs
BatcherBurstNext ==
    \/ BatcherTick
    \/ \E p \in Producers : HandleSpeechBurst(p)
    \/ \E p \in Producers : PutResume(p)
    \/ Initialize
    \/ LoopStart
    \/ LoopGetItem
    \/ LoopTimeout
    \/ LoopWake

(***************************************************************************)
(* UltraFastRAGSystem: cache-key derivation                                *)
(***************************************************************************)
\* A query is the sequence of its whitespace-separated pieces; " " stands
\* for leading or trailing whitespace.
Queries ==
    { <<"heavy", "duty", "towing", "cost">>,
      <<"tire", "service", "cost">>,
      <<"towing", "price">>,
      <<" ", "Towing", "PRICE">>,
      <<"credit", "card">>,
      <<"hello">> }

\* the queries retrieve_context is called with
LookupQueries ==
    { <<"heavy", "duty", "towing", "cost">>,
      <<"credit", "card">>,
      <<"tire", "service", "cost">>,
      <<"hello">> }

\* the queries search is called with
SearchQueries == { <<"tire", "service", "cost">> }

\* str.lower() on the pieces that occur
Lower(w) ==
    CASE w = "Towing" -> "towing"
      [] w = "PRICE" -> "price"
      [] OTHER -> w

\* query.lower().strip().split(): the lower-cased words
Words(query) == LET lowered == [i \in DOMAIN query |-> Lower(query[i])]
                    IsWord(w) == w # " "
                IN SelectSeq(lowered, IsWord)

\* self.common_patterns, in dict order, each pattern query as its word list
common_patterns ==
    << [key |-> "towing_standard",
        query |-> <<"light", "duty", "car", "towing", "pricing", "cost", "base", "rate">>],
       [key |-> "towing_heavy",
        query |-> <<"heavy", "duty", "truck", "towing", "pricing", "cost", "commercial", "rate">>],
       [key |-> "battery_service",
        query |-> <<"jumpstart", "battery", "service", "cost", "pricing", "rate">>],
       [key |-> "tire_service",
        query |-> <<"tire", "change", "flat", "tire", "service", "cost", "pricing">>],
       [key |-> "lockout_service",
        query |-> <<"lockout", "car", "key", "service", "cost", "pricing">>],
       [key |-> "fuel_delivery",
        query |-> <<"fuel", "delivery", "gas", "diesel", "service", "cost", "pricing">>] >>

\* `word in query_lower` is a substring test: the pattern words that occur
\* inside a longer word of the queries
ProperSubstrings == { <<"car", "card">> }

Contains(words, word) ==
    \E i \in DOMAIN words : words[i] = word \/ <<word, words[i]>> \in ProperSubstrings

\* any(word in query_lower for word in pattern_query.split()[:3])
PatternMatches(pat, words) ==
    \E i \in 1..3 : i <= Len(pat.query) /\ Contains(words, pat.query[i])

\* important_words, in the order sorted() gives them
important_words ==
    <<"battery", "cost", "fuel", "heavy", "light", "lockout", "price", "pricing",
      "tire", "towing">>

\* sorted(key_words): every important word, as often as it occurs in the query
RECURSIVE SortedKeyWords(_, _)
SortedKeyWords(words, i) ==
    IF i > Len(important_words) THEN <<>>
    ELSE LET Same(w) == w = important_words[i]
         IN SelectSeq(words, Same) \o SortedKeyWords(words, i + 1)

\* hashlib.md5(query_lower.encode()).hexdigest()[:12] of the queries that reach it
Md5Hex12(words) ==
    CASE words = <<"hello">> -> "5d41402abc4b"
      [] words = <<"credit", "card">> -> "3a0c5d1b7c0e"
      [] OTHER -> "d41d8cd98f00"

\* _create_smart_cache_key; the key is the list of the parts that "_" joins
CreateSmartCacheKey(query) ==
    LET words == Words(query)
        hits == {i \in DOMAIN common_patterns : PatternMatches(common_patterns[i], words)}
        first == CHOOSE i \in hits : \A j \in hits : i <= j
        key_words == SortedKeyWords(words, 1)
    IN IF hits # {} THEN <<common_patterns[first].key>>
       ELSE IF key_words # <<>> THEN key_words
       ELSE <<Md5Hex12(words)>>

\* search: f"search_{cache_key}"
SearchKey(query) == <<"search_">> \o CreateSmartCacheKey(query)

CacheKeys == {CreateSmartCacheKey(q) : q \in LookupQueries} \cup {SearchKey(q) : q \in SearchQueries}

(***************************************************************************)
(* UltraFastRAGSystem: two-tier cache                                      *)
(***************************************************************************)
Lookups == 1..NumLookups

\* what the retriever can yield for a query: cleaned, combined context text
Contexts == {"ctxA", "ctxB"}

\* what search stores for a query: its list of result records
SearchResults == {"results"}

NoKey == <<>>

NoQuery == <<>>

NoLookup == [key |-> NoKey, invoked |-> FALSE, returned |-> "none"]

CacheInit ==
    /\ ready = FALSE
    /\ l1_cache = <<>>
    /\ l2_cache = <<>>
    /\ query_frequency = [k \in CacheKeys |-> 0]
    /\ cache_hits = 0
    /\ cache_misses = 0
    /\ total_queries = 0
    /\ rpc = [c \in Lookups |-> "idle"]
    /\ rkey = [c \in Lookups |-> NoKey]
    /\ rquery = [c \in Lookups |-> NoQuery]
    /\ rstale = [c \in Lookups |-> FALSE]
    /\ last_lookup = NoLookup

\* `key in cache`
In(cache, k) == \E i \in DOMAIN cache : cache[i].k = k

\* cache[key]
ValueOf(cache, k) == cache[CHOOSE i \in DOMAIN cache : cache[i].k = k].v

\* cache[key] = value: an existing key keeps its place, a new one goes last
DictSet(cache, k, v) ==
    IF In(cache, k)
    THEN [i \in DOMAIN cache |-> IF cache[i].k = k THEN [k |-> k, v |-> v] ELSE cache[i]]
    ELSE Append(cache, [k |-> k, v |-> v])

\* items[-max // 2:] : the number of entries the slice keeps
KeepCount(max) == 0 - ((0 - max) \div 2)

LastNMut(items, n) ==
    IF n >= Len(items) THEN items ELSE SubSeq(items, 1, n)

LastN(items, n) ==
    IF n >= Len(items) THEN items ELSE SubSeq(items, Len(items) - n + 1, Len(items))

\* sorted(items, key=frequency): stable, ascending
RECURSIVE SortedByFreq(_, _)
SortedByFreq(items, freq) ==
    IF items = <<>> THEN <<>>
    ELSE LET m == CHOOSE i \in DOMAIN items :
                     /\ \A j \in DOMAIN items : freq[items[i].k] <= freq[items[j].k]
                     /\ \A j \in 1..(i - 1) : freq[items[j].k] > freq[items[i].k]
             rest == [j \in 1..(Len(items) - 1) |-> IF j < m THEN items[j] ELSE items[j + 1]]
         IN <<items[m]>> \o SortedByFreq(rest, freq)

\* _update_query_frequency
UpdateQueryFrequencyMut(freq, k) == freq

UpdateQueryFrequency(freq, k) == [freq EXCEPT ![k] = @ + 1]

\* _promote_to_l1_cache: the new l1_cache
PromoteToL1(l1, k, v) ==
    LET set == DictSet(l1, k, v)
    IN IF Len(set) > max_l1_cache THEN LastN(set, KeepCount(max_l1_cache)) ELSE set

\* _cache_result, the L2 part: the new l2_cache, freq being the updated table
CacheResultL2(l2, freq, k, v) ==
    LET set == DictSet(l2, k, v)
    IN IF Len(set) > max_l2_cache
       THEN LastN(SortedByFreq(set, freq), KeepCount(max_l2_cache))
       ELSE set

\* promotion threshold of _cache_result
PromotionThreshold == 3

\* retrieve_context: the two `cache_key in` tests taken together
IsCachedMut(k) == In(l1_cache, k)

IsCached(k) == In(l1_cache, k) \/ In(l2_cache, k)

\* the lookup tasks are interchangeable: a new call runs in the first idle one
FreeTask(c) == rpc[c] = "idle" /\ \A d \in Lookups : d < c => rpc[d] # "idle"

\* initialize: index, retriever built; ready
RagInitialize ==
    /\ ~ready
    /\ ready' = TRUE
    /\ last_lookup' = NoLookup
    /\ UNCHANGED <<now, breakerVars, batcherVars, l1_cache, l2_cache, query_frequency,
                   cache_hits, cache_misses, total_queries, rpc, rkey, rquery, rstale>>

\* retrieve_context up to its return from a cache tier or to the await of
\* retriever.aretrieve
RetrieveStart(c, query) ==
    /\ FreeTask(c)
    /\ IF ~ready
       THEN /\ last_lookup' = [key |-> NoKey, invoked |-> FALSE, returned |-> ""]
            /\ UNCHANGED <<l1_cache, l2_cache, query_frequency, cache_hits, cache_misses,
                           total_queries, rpc, rkey, rquery, rstale>>
       ELSE LET k == CreateSmartCacheKey(query)
            IN /\ total_queries' = total_queries + 1
               /\ IF ~IsCached(k)
                  THEN /\ cache_misses' = cache_misses + 1
                       /\ rpc' = [rpc EXCEPT ![c] = "retrieving"]
                       /\ rkey' = [rkey EXCEPT ![c] = k]
                       /\ rquery' = [rquery EXCEPT ![c] = query]
                       /\ UNCHANGED rstale
                       /\ last_lookup' = [key |-> k, invoked |-> TRUE,
                                          returned |-> "pending"]
                       /\ UNCHANGED <<l1_cache, l2_cache, query_frequency, cache_hits>>
                  ELSE /\ cache_hits' = cache_hits + 1
                       /\ IF In(l1_cache, k)
                          THEN /\ query_frequency' = UpdateQueryFrequency(query_frequency, k)
                               /\ last_lookup' = [key |-> k, invoked |-> FALSE,
                                                  returned |-> ValueOf(l1_cache, k)]
                               /\ UNCHANGED l1_cache
                          ELSE /\ l1_cache' = PromoteToL1(l1_cache, k, ValueOf(l2_cache, k))
                               /\ last_lookup' = [key |-> k, invoked |-> FALSE,
                                                  returned |-> ValueOf(l2_cache, k)]
                               /\ UNCHANGED query_frequency
                       /\ UNCHANGED <<l2_cache, cache_misses, rpc, rkey, rquery, rstale>>
    /\ UNCHANGED <<now, breakerVars, batcherVars, ready>>

\* a retrieve_context call, while the number of lookups is below its cap
RetrieveBegin(c, query) ==
    /\ total_queries < MaxOps
    /\ RetrieveStart(c, query)

\* retrieve_context after aretrieve returned nodes that give a context:
\* _cache_result(cache_key, context)
RetrieveEndContext(c, v) ==
    /\ rpc[c] = "retrieving"
    /\ LET k == rkey[c]
           freq == UpdateQueryFrequency(query_frequency, k)
       IN /\ query_frequency' = freq
          /\ l2_cache' = CacheResultL2(l2_cache, freq, k, v)
          /\ l1_cache' = IF freq[k] >= PromotionThreshold
                         THEN PromoteToL1(l1_cache, k, v) ELSE l1_cache
    /\ rpc' = [rpc EXCEPT ![c] = "idle"]
    /\ rkey' = [rkey EXCEPT ![c] = NoKey]
    /\ rquery' = [rquery EXCEPT ![c] = NoQuery]
    /\ rstale' = [rstale EXCEPT ![c] = FALSE]
    /\ last_lookup' = NoLookup
    /\ UNCHANGED <<now, breakerVars, batcherVars, ready, cache_hits, cache_misses,
                   total_queries>>

\* retrieve_context after aretrieve gave no usable node or raised: nothing
\* is cached, "" is returned
RetrieveEndEmpty(c) ==
    /\ rpc[c] = "retrieving"
    /\ rpc' = [rpc EXCEPT ![c] = "idle"]
    /\ rkey' = [rkey EXCEPT ![c] = NoKey]
    /\ rquery' = [rquery EXCEPT ![c] = NoQuery]
    /\ rstale' = [rstale EXCEPT ![c] = FALSE]
    /\ last_lookup' = NoLookup
    /\ UNCHANGED <<now, breakerVars, batcherVars, ready, l1_cache, l2_cache,
                   query_frequency, cache_hits, cache_misses, total_queries>>

\* _get_fallback_response: `"towing" in query_lower` and so on, in order
GetFallbackResponseMut(query) == ""

GetFallbackResponse(query) ==
    LET words == Words(query)
    IN IF Contains(words, "towing")
       THEN "Towing service available. Pricing varies by vehicle type and distance."
       ELSE IF Contains(words, "battery")
       THEN "Battery jumpstart service available. Standard pricing applies."
       ELSE IF Contains(words, "tire")
       THEN "Tire service available. Pricing based on service type."
       ELSE IF Contains(words, "lockout")
       THEN "Lockout service available. Standard rates apply."
       ELSE IF Contains(words, "fuel")
       THEN "Fuel delivery service available. Distance-based pricing."
       ELSE "Service available. Please contact dispatch for pricing."

\* retrieve_context when wait_for(aretrieve, 3.0) raises TimeoutError: the
\* fallback text, if it is not empty, is returned, else ""
RetrieveTimeout(c) ==
    /\ rpc[c] = "retrieving"
    /\ rpc' = [rpc EXCEPT ![c] = "idle"]
    /\ rkey' = [rkey EXCEPT ![c] = NoKey]
    /\ rquery' = [rquery EXCEPT ![c] = NoQuery]
    /\ rstale' = [rstale EXCEPT ![c] = FALSE]
    /\ last_lookup' = [key |-> rkey[c], invoked |-> TRUE,
                       returned |-> GetFallbackResponse(rquery[c])]
    /\ UNCHANGED <<now, breakerVars, batcherVars, ready, l1_cache, l2_cache,
                   query_frequency, cache_hits, cache_misses, total_queries>>

\* search up to its return from l2_cache or to the await of aretrieve
SearchBegin(c, query) ==
    /\ FreeTask(c)
    /\ ready
    /\ cache_hits + cache_misses + Cardinality({d \in Lookups : rpc[d] = "searching"}) < MaxOps
    /\ last_lookup' = NoLookup
    /\ IF In(l2_cache, SearchKey(query))
       THEN /\ cache_hits' = cache_hits + 1
            /\ UNCHANGED <<rpc, rkey, rquery, rstale>>
       ELSE /\ rpc' = [rpc EXCEPT ![c] = "searching"]
            /\ rkey' = [rkey EXCEPT ![c] = SearchKey(query)]
            /\ rquery' = [rquery EXCEPT ![c] = query]
            /\ UNCHANGED rstale
            /\ UNCHANGED cache_hits
    /\ UNCHANGED <<now, breakerVars, batcherVars, ready, l1_cache, l2_cache,
                   query_frequency, cache_misses, total_queries>>

\* search after aretrieve returned nodes: the results are stored in l2_cache
SearchEndResults(c, v) ==
    /\ rpc[c] = "searching"
    /\ l2_cache' = DictSet(l2_cache, rkey[c], v)
    /\ cache_misses' = cache_misses + 1
    /\ rpc' = [rpc EXCEPT ![c] = "idle"]
    /\ rkey' = [rkey EXCEPT ![c] = NoKey]
    /\ rquery' = [rquery EXCEPT ![c] = NoQuery]
    /\ rstale' = [rstale EXCEPT ![c] = FALSE]
    /\ last_lookup' = NoLookup
    /\ UNCHANGED <<now, breakerVars, batcherVars, ready, l1_cache, query_frequency,
                   cache_hits, total_queries>>

\* search after aretrieve returned no node, timed out or raised
SearchEndEmpty(c) ==
    /\ rpc[c] = "searching"
    /\ rpc' = [rpc EXCEPT ![c] = "idle"]
    /\ rkey' = [rkey EXCEPT ![c] = NoKey]
    /\ rquery' = [rquery EXCEPT ![c] = NoQuery]
    /\ rstale' = [rstale EXCEPT ![c] = FALSE]
    /\ last_lookup' = NoLookup
    /\ UNCHANGED <<now, breakerVars, batcherVars, ready, l1_cache, l2_cache,
                   query_frequency, cache_hits, cache_misses, total_queries>>

\* add_documents with total_added > 0: retriever rebuilt, l1_cache and
\* l2_cache cleared (query_frequency is left as it is)
DocumentsAdded ==
    /\ ready
    /\ l1_cache' = <<>>
    /\ l2_cache' = <<>>
    /\ last_lookup' = NoLookup
    /\ UNCHANGED <<now, breakerVars, batcherVars, ready, query_frequency, cache_hits,
                   cache_misses, total_queries, rpc, rkey, rquery>>

AddDocuments == DocumentsAdded /\ UNCHANGED rstale

\* add_documents, with the calls it overtakes recorded
AddDocumentsOvertaking ==
    /\ DocumentsAdded
    /\ rstale' = [c \in Lookups |-> rstale[c] \/ rpc[c] = "retrieving"]

CacheNext ==
    \/ RagInitialize
    \/ \E c \in Lookups, q \in LookupQueries : RetrieveBegin(c, q)
    \/ \E c \in Lookups, v \in Contexts : RetrieveEndContext(c, v)
    \/ \E c \in Lookups : RetrieveEndEmpty(c)
    \/ \E c \in Lookups : RetrieveTimeout(c)
    \/ \E c \in Lookups, q \in SearchQueries : SearchBegin(c, q)
    \/ \E c \in Lookups, v \in SearchResults : SearchEndResults(c, v)
    \/ \E c \in Lookups : SearchEndEmpty(c)
    \/ AddDocuments

CacheStaleNext ==
    \/ RagInitialize
    \/ \E c \in Lookups, q \in LookupQueries : RetrieveBegin(c, q)
    \/ \E c \in Lookups, v \in Contexts : RetrieveEndContext(c, v)
    \/ \E c \in Lookups : RetrieveEndEmpty(c)
    \/ \E c \in Lookups : RetrieveTimeout(c)
    \/ \E c \in Lookups, q \in SearchQueries : SearchBegin(c, q)
    \/ \E c \in Lookups, v \in SearchResults : SearchEndResults(c, v)
    \/ \E c \in Lookups : SearchEndEmpty(c)
    \/ AddDocumentsOvertaking

\* one caller that awaits each call before it makes the next
NoCallInFlight == \A d \in Lookups : rpc[d] = "idle"

CacheSeqNext ==
    \/ RagInitialize
    \/ \E c \in Lookups, q \in LookupQueries :
          NoCallInFlight /\ total_queries < MaxSeqOps /\ RetrieveStart(c, q)
    \/ \E c \in Lookups, v \in Contexts : RetrieveEndContext(c, v)
    \/ \E c \in Lookups : RetrieveEndEmpty(c)
    \/ \E c \in Lookups : RetrieveTimeout(c)
    \/ \E c \in Lookups, q \in SearchQueries : NoCallInFlight /\ SearchBegin(c, q)
    \/ \E c \in Lookups, v \in SearchResults : SearchEndResults(c, v)
    \/ \E c \in Lookups : SearchEndEmpty(c)
    \/ NoCallInFlight /\ AddDocuments

Init ==
    /\ now = 0
    /\ BreakerInit
    /\ BatcherInit
    /\ CacheInit

SpecBreaker == Init /\ [][BreakerNext]_vars

SpecBreakerSeq == Init /\ [][BreakerSeqNext]_vars

SpecBatcher == Init /\ [][BatcherNext]_vars

SpecBatcherBurst == Init /\ [][BatcherBurstNext]_vars

SpecCacheStale == Init /\ [][CacheStaleNext]_vars

SpecCacheSeq == Init /\ [][CacheSeqNext]_vars

SpecCache == Init /\ [][CacheNext]_vars

(***************************************************************************)
(* Claims about the write queue and the flush loop                         *)
(***************************************************************************)
\* C4: a put on a full queue is rejected at once: the producer is not
\* suspended in put (it stays ready for its next event) and the queue is
\* left as it is.
C4_PutNeverBlocks ==
    [][ \A p \in Producers :
            (Full(write_queue) /\ ppc[p] = "idle") => ppc'[p] = "idle" ]_vars

Unflushed == write_queue \o batch

LoopFlush == last_flush.by = "loop"

\* C8 as stated: the first item of a batch flushed by the loop, accepted
\* while the loop was running, is flushed within the batch window of its
\* enqueue time.
C8_WithinWindowOfEnqueue ==
    (LoopFlush /\ last_flush.items[1].live) => last_flush.items[1].age <= BatchWindow

\* C8 amended: an item is flushed within the batch window of the time the
\* flush loop took it from the queue, whatever the batch size; for an item
\* accepted while the loop was running that is within the batch window plus
\* one idle sleep of its enqueue time.
C8_WithinWindowOfTake ==
    /\ \A i \in DOMAIN batch : batch[i].held <= BatchWindow
    /\ LoopFlush =>
          \A i \in DOMAIN last_flush.items :
             LET it == last_flush.items[i]
             IN /\ it.held <= BatchWindow
                /\ it.live => it.age <= BatchWindow + IdleSleep

C8_Witness ==
    /\ LoopFlush
    /\ last_flush.processing
    /\ Len(last_flush.items) < MaxBatch
    /\ last_flush.items[1].live
    /\ last_flush.items[1].held = BatchWindow

Dist(a, b) == IF a >= b THEN a - b ELSE b - a

\* C9 as stated: items (fewer than the max batch size) enqueued within a span
\* shorter than the batch window while the loop runs are flushed in one
\* batch: none of them is left behind by the flush of another.
C9_FlushedTogether ==
    (LoopFlush /\ last_flush.processing /\ next_id - 1 < MaxBatch) =>
        \A i \in DOMAIN last_flush.items : \A j \in DOMAIN Unflushed :
            (last_flush.items[i].live /\ Unflushed[j].live)
               => Dist(last_flush.items[i].age, Unflushed[j].age) >= BatchWindow

\* C9 amended: a batch of fewer than the max batch size is flushed by the
\* running loop only when the deadline of its collecting pass (the batch
\* window counted from the start of the pass) is reached, never early by
\* size, and it holds the items the loop took during that pass.
C9_FlushedAtDeadline ==
    /\ \A i \in DOMAIN batch : batch[i].held <= BatchWindow - remaining_time
    /\ (LoopFlush /\ last_flush.processing /\ Len(last_flush.items) < MaxBatch) =>
          /\ last_flush.remaining <= 0
          /\ \A i \in DOMAIN last_flush.items :
                last_flush.items[i].held <= BatchWindow - last_flush.remaining

C9_Witness ==
    /\ LoopFlush
    /\ last_flush.processing
    /\ Len(last_flush.items) = 3
    /\ last_flush.remaining = 0
    /\ last_flush.items[1].age > last_flush.items[3].age

\* C10: the persistence calls are made in the order in which the items were
\* accepted into the queue, across the batches of the loop and the drain of
\* cleanup.
C10_FifoOrder ==
    \A i, j \in DOMAIN persisted : i < j => persisted[i] < persisted[j]

C10_Witness ==
    /\ last_flush.by = "cleanup"
    /\ Len(persisted) >= 3
    /\ Len(last_flush.items) < Len(persisted)

(***************************************************************************)
(* Claims about the cache                                                  *)
(***************************************************************************)
\* C5: after any sequence of cache operations the hot tier holds at most
\* max_l1_cache entries and the warm tier at most max_l2_cache entries.
C5_TierBounds ==
    /\ Len(l1_cache) <= max_l1_cache
    /\ Len(l2_cache) <= max_l2_cache

\* C6: a key whose count in query_frequency has reached the promotion
\* threshold is present in the hot tier.
C6_FrequentInHot ==
    \A k \in CacheKeys : query_frequency[k] >= PromotionThreshold => In(l1_cache, k)

StartsLookup == total_queries' = total_queries + 1

\* C7: a retrieve_context call whose derived key is in the hot or the warm
\* tier returns the value cached there (the hot tier first) and does not
\* invoke the retriever.
C7_ServedFromCache ==
    [][ StartsLookup =>
          LET k == last_lookup'.key
          IN (In(l1_cache, k) \/ In(l2_cache, k)) =>
                /\ ~last_lookup'.invoked
                /\ rpc' = rpc
                /\ last_lookup'.returned =
                      IF In(l1_cache, k) THEN ValueOf(l1_cache, k) ELSE ValueOf(l2_cache, k)
      ]_vars

C7_Witness ==
    /\ last_lookup.key # NoKey
    /\ ~last_lookup.invoked
    /\ last_lookup.returned \in Contexts
    /\ query_frequency[last_lookup.key] >= 1
    /\ In(l1_cache, last_lookup.key)

(***************************************************************************)
(* Claims about the circuit breaker                                        *)
(***************************************************************************)
BeginsCall(c) == xturn'[c] # xturn[c]

\* C1: once `threshold` consecutive operations have failed the breaker is
\* OPEN, and every execute call made before `timeout` has elapsed since the
\* last recorded failure fails with the circuit-open error and does not
\* invoke its operation.
C1_OpenRejects ==
    [][ /\ (consecutive_failures' # consecutive_failures
              /\ consecutive_failures' >= threshold) => state' = "OPEN"
        /\ \A c \in Callers :
              (/\ BeginsCall(c)
               /\ consecutive_failures >= threshold
               /\ now - last_failure_time < timeout)
              => (xresult'[c] = "circuit_open" /\ xpc'[c] = "idle")
      ]_vars

C1_Witness ==
    /\ consecutive_failures >= threshold
    /\ state = "OPEN"
    /\ now - last_failure_time < timeout
    /\ \E c \in Callers : xresult[c] = "circuit_open"

\* C2: at most one operation is in flight as the HALF_OPEN trial: an execute
\* call that arrives while the trial operation is still running does not
\* invoke its operation.
C2_SingleTrial == Cardinality({c \in Running : xtrial[c]}) <= 1

EndsTrial(c) == xpc[c] = "running" /\ xtrial[c] /\ xpc'[c] = "idle"

\* C3: a HALF_OPEN trial that succeeds leaves the breaker CLOSED with
\* failure_count = 0; one that fails leaves it OPEN with last_failure_time
\* set to the time of that failure, and calls are rejected again until a
\* full open timeout has passed since the failed trial.
C3_TrialOutcome ==
    [][ /\ \A c \in Callers :
              EndsTrial(c) =>
                 /\ xresult'[c] = "ok" => (state' = "CLOSED" /\ failure_count' = 0)
                 /\ xresult'[c] = "error" =>
                        (state' = "OPEN" /\ last_failure_time' = now)
        /\ \A c \in Callers :
              (/\ BeginsCall(c)
               /\ failed_trial_time # NoTime
               /\ now - failed_trial_time <= timeout)
              => (xresult'[c] = "circuit_open" /\ xpc'[c] = "idle")
      ]_vars

C3_Witness ==
    /\ failed_trial_time # NoTime
    /\ now - failed_trial_time = timeout
    /\ state = "OPEN"
    /\ last_failure_time = failed_trial_time
    /\ \E c \in Callers : xresult[c] = "circuit_open"

(***************************************************************************)
(* Drain on stop, consumption and failure handling of the write queue      *)
(***************************************************************************)
Range(q) == { q[i] : i \in DOMAIN q }

NoDuplicates(q) == \A i, j \in DOMAIN q : i # j => q[i] # q[j]

\* the step in which cleanup returns
CleanupReturns == cpc # "done" /\ cpc' = "done"

C12_ConsumedOnce ==
    /\ NoDuplicates(Ids(write_queue) \o Ids(batch) \o flushed)
    /\ Range(Ids(write_queue) \o Ids(batch) \o flushed) = 1..(next_id - 1)
    /\ NoDuplicates(persisted)
    /\ Range(persisted) \subseteq Range(flushed)

C12_Witness ==
    /\ mongo_failures >= 1
    /\ last_flush.by = "cleanup"
    /\ last_flush.items # <<>>
    /\ Len(last_flush.items) < Len(flushed)
    /\ persisted # <<>>

\* C13: every call of the store made by a flush is made inside an execute call
\* of the breaker, every failed write adds one to the breaker's
\* failure_count, and while the breaker is OPEN with its timeout not elapsed
\* no flush calls the store.
C13_WritesThroughBreaker ==
    [][ /\ persisted' # persisted => \E c \in Callers : BeginsCall(c)
        /\ mongo_failures' > mongo_failures => failure_count' = failure_count + 1
        /\ (state = "OPEN" /\ ~TimeoutElapsed(now, last_failure_time))
              => persisted' = persisted ]_vars

WriteFails == mongo_failures' > mongo_failures

\* a step in which a store call raises inside _execute_batch_write
BatchWriteRaises ==
    /\ flushed' # flushed
    /\ last_flush'.attempted # Ids(SelectSeq(last_flush'.items, IsSegment))

\* C15: a failed write changes nothing for the producers or the flush loop,
\* an exception inside a batch write does not leave _execute_batch_write,
\* and as long as is_processing is true the flush loop is alive and flushes
\* what it takes within the batch window, also after failures.
C15_FailureContained ==
    /\ [](is_processing => LoopRunning)
    /\ [](mongo_failures > 0 => \A i \in DOMAIN batch : batch[i].held <= BatchWindow)
    /\ [][ /\ WriteFails =>
                /\ ppc' = ppc
                /\ lpc' = lpc
                /\ is_processing' = is_processing
                /\ write_queue' = write_queue /\ batch' = batch
           /\ BatchWriteRaises => (ppc' = ppc /\ cpc' = "done") ]_vars

C15_Witness ==
    /\ mongo_failures >= 1
    /\ LoopFlush
    /\ last_flush.processing
    /\ Len(last_flush.items) >= 1
    /\ Len(flushed) > Len(last_flush.items)
    /\ \E p \in Producers : ppc[p] = "idle"

(***************************************************************************)
(* Invalidation, timeouts and key derivation of the result cache           *)
(***************************************************************************)
\* C16: add_documents that added a document leaves the hot tier, the warm
\* tier and the frequency table empty.
C16_AllCleared ==
    [][ AddDocuments =>
          /\ l1_cache' = <<>>
          /\ l2_cache' = <<>>
          /\ \A k \in CacheKeys : query_frequency'[k] = 0 ]_vars

\* the texts _get_fallback_response can return
FallbackTexts == { GetFallbackResponse(q) : q \in LookupQueries }

\* a step in which the retrieval of a retrieve_context call times out
TimesOut == \E c \in Lookups : RetrieveTimeout(c)

\* C17 as stated: a retrieve_context call whose retrieval times out inserts
\* nothing into either tier and returns the empty result.
C17_TimeoutReturnsEmpty ==
    [][ TimesOut =>
          /\ l1_cache' = l1_cache /\ l2_cache' = l2_cache
          /\ last_lookup'.returned = "" ]_vars

\* C17 amended: a retrieve_context call whose retrieval times out inserts
\* nothing into either tier, leaves the frequency table as it is, and
\* returns a fallback text, which is never empty and never a retrieved
\* context.
C17_TimeoutReturnsFallback ==
    [][ TimesOut =>
          /\ l1_cache' = l1_cache /\ l2_cache' = l2_cache
          /\ query_frequency' = query_frequency
          /\ last_lookup'.returned # ""
          /\ last_lookup'.returned \notin Contexts ]_vars

C17_Witness ==
    /\ last_lookup.invoked
    /\ last_lookup.returned = "Tire service available. Pricing based on service type."
    /\ ~IsCached(last_lookup.key)
    /\ l2_cache # <<>>

\* C19: every key in the hot tier has a count of at least 1 in the
\* frequency table.
C19_HotKeysCounted ==
    \A i \in DOMAIN l1_cache : query_frequency[l1_cache[i].k] >= 1

C19_Witness ==
    /\ l1_cache # <<>>
    /\ \E i \in DOMAIN l1_cache : query_frequency[l1_cache[i].k] = 1
    /\ \E k \in CacheKeys : query_frequency[k] >= 1 /\ ~In(l1_cache, k)

(***************************************************************************)
(* Failure counting of the circuit breaker                                 *)
(***************************************************************************)
\* C20: the breaker is OPEN only with failure_count >= threshold, and
\* failure_count is the number of failures recorded since the last
\* operation that succeeded, so fewer than threshold failures followed by a
\* success leave the breaker CLOSED with a count of 0.
C20_CountSinceSuccess ==
    /\ state = "OPEN" => failure_count >= threshold
    /\ failure_count = consecutive_failures
    /\ consecutive_failures < threshold => state = "CLOSED"

C20_Witness ==
    /\ state = "CLOSED"
    /\ failure_count = 0
    /\ last_failure_time # NoTime
    /\ \E c \in Callers : xresult[c] = "ok"
    /\ \E c \in Callers : xresult[c] = "error"

(***************************************************************************)
(* Warm-tier hits, the cache put and eviction                              *)
(***************************************************************************)
\* a retrieve_context call that misses the hot tier and hits the warm tier
WarmHit ==
    /\ StartsLookup
    /\ ~In(l1_cache, last_lookup'.key)
    /\ In(l2_cache, last_lookup'.key)

\* C21: a lookup that misses the hot tier and hits the warm tier returns the
\* warm-tier value, adds exactly one to the key's frequency count and leaves
\* the key in the hot tier with that value.
C21_WarmHitCounts ==
    [][ WarmHit =>
          LET k == last_lookup'.key
          IN /\ last_lookup'.returned = ValueOf(l2_cache, k)
             /\ query_frequency'[k] = query_frequency[k] + 1
             /\ In(l1_cache', k)
             /\ ValueOf(l1_cache', k) = ValueOf(l2_cache, k) ]_vars

\* C22: after _cache_result(key, value) the warm tier holds value
\* under key, the key's count is one higher than before, and with a count
\* of 3 or more the hot tier holds value under key too.
C22_PutStoresInWarm ==
    [][ \A c \in Lookups, v \in Contexts :
          RetrieveEndContext(c, v) =>
             LET k == rkey[c]
             IN /\ In(l2_cache', k) /\ ValueOf(l2_cache', k) = v
                /\ query_frequency'[k] = query_frequency[k] + 1
                /\ query_frequency'[k] >= PromotionThreshold =>
                      (In(l1_cache', k) /\ ValueOf(l1_cache', k) = v) ]_vars

\* the hot tier after _promote_to_l1_cache(k, v) had to evict: the most
\* recently inserted half of the entries, k among them
HotKeepsNewestHalf(k, v) ==
    LET set == DictSet(l1_cache, k, v)
        n == Len(l1_cache')
    IN Len(set) > max_l1_cache =>
          /\ 2 * n \in {max_l1_cache, max_l1_cache + 1}
          /\ \A i \in 1..n : l1_cache'[i] = set[Len(set) - n + i]
          /\ In(l1_cache', k) /\ ValueOf(l1_cache', k) = v

\* the warm tier after _cache_result(k, v) had to evict: half of the entries,
\* none of the evicted ones counted higher than a retained one
WarmKeepsFrequentHalf(k, v) ==
    LET set == DictSet(l2_cache, k, v)
    IN Len(set) > max_l2_cache =>
          /\ 2 * Len(l2_cache') \in {max_l2_cache, max_l2_cache + 1}
          /\ NoDuplicates([j \in DOMAIN l2_cache' |-> l2_cache'[j].k])
          /\ \A j \in DOMAIN l2_cache' : \E i \in DOMAIN set : set[i] = l2_cache'[j]
          /\ \A i \in DOMAIN set, j \in DOMAIN l2_cache' :
                ~In(l2_cache', set[i].k) =>
                    query_frequency'[set[i].k] <= query_frequency'[l2_cache'[j].k]

C24_EveryKindPersisted ==
    [][ (flushed' # flushed /\ storage = "ready") =>
            persisted' = persisted \o Ids(last_flush'.items) ]_vars

\* C25: once the breaker is OPEN it leaves OPEN only by becoming HALF_OPEN
\* after the timeout has elapsed since the last failure; while it is OPEN no
\* step (a late success of an operation started earlier included) closes it
\* or lowers failure_count.
C25_OpenLeavesByTimeout ==
    [][ state = "OPEN" =>
          /\ state' \in {"OPEN", "HALF_OPEN"}
          /\ state' = "HALF_OPEN" => TimeoutElapsed(now, last_failure_time)
          /\ failure_count' >= failure_count ]_vars

\* the query names the word
Names(query, word) == \E i \in DOMAIN Words(query) : Words(query)[i] = word

\* C26: queries that name different service categories derive different
\* cache keys: the key of a lookup about tire, lockout or fuel service is
\* not the battery-service key, and the key of a heavy-duty towing lookup is
\* not the standard-towing key.
C26_CategoriesKeptApart ==
    \A c \in Lookups :
        rpc[c] = "retrieving" =>
            /\ (Names(rquery[c], "tire") \/ Names(rquery[c], "lockout")
                    \/ Names(rquery[c], "fuel"))
                  => rkey[c] # <<"battery_service">>
            /\ (Names(rquery[c], "heavy") /\ Names(rquery[c], "towing"))
                  => rkey[c] # <<"towing_standard">>

C28_TiersAgree ==
    \A k \in CacheKeys :
        (In(l1_cache, k) /\ In(l2_cache, k)) => ValueOf(l1_cache, k) = ValueOf(l2_cache, k)

\* C29: the cache counters add up, cache_hits + cache_misses = total_queries,
\* so the reported hit rate cache_hits / total_queries is at most 100%.
C29_CountersAddUp ==
    /\ cache_hits + cache_misses = total_queries
    /\ cache_hits <= total_queries

\* C30: every batch flushed by the flush loop holds at least 1 and at most
\* MaxBatch (5) items, however fast the producers enqueue.
C30_LoopBatchSize ==
    LoopFlush => (1 <= Len(last_flush.items) /\ Len(last_flush.items) <= MaxBatch)

\* a batch flushed because it reached the maximum size, its window still open
C30_Witness ==
    /\ LoopFlush
    /\ Len(last_flush.items) = MaxBatch
    /\ last_flush.remaining > 0
    /\ last_flush.processing

====
